---------------------------- MODULE Spec2Model ----------------------------
(***************************************************************************)
(* Model of the virtual-screening scripts in src/Molecular_Docking:        *)
(*   Docking1.py       docking_process       (prog = "dock1")              *)
(*   Docking2.py       second_round_docking  (prog = "dock2")              *)
(*   MOL2_top_poses.py analyze_results       (prog = "analyze")            *)
(* One behaviour is one run of one script.  Scores are kept in tenths      *)
(* (-9.3 is -93).  A file name is a record [stem, ext]; a text file is a   *)
(* sequence of lines, a line the sequence of its whitespace-separated      *)
(* tokens (every line ends with a newline and has no leading blank).       *)
(***************************************************************************)
EXTENDS Integers, Sequences, FiniteSets, TLC

\* ------------------------------------------------------------- bounds ---
\* number of molecule names that can occur in a directory
MaxMol == 2
\* largest psutil.cpu_count() considered
MaxCpu == 2
\* stand-in for the cut at results[:500] (Docking1.py:81)
TopK1 == 2
\* stand-in for the cut at results[:10] (MOL2_top_poses.py:55)
TopK2 == 1

\* ---------------------------------------------------------- file names ---
Stems == 1..MaxMol
PdbqtName(i) == [stem |-> i, ext |-> "pdbqt"]
NotesName == [stem |-> 1, ext |-> "txt"]
MolNames == {PdbqtName(i) : i \in Stems}

\* f.endswith('.pdbqt')
EndsWithPdbqt(f) == f.ext = "pdbqt"

\* pdbqt_file[:-6]
StripExt(f) == f.stem

\* os.path.join(results_dir, pdbqt_file)
ResultsPath(f) == [dir |-> "results", name |-> f]

\* variant: one log file name for every job
LogPathShared(f) == [dir |-> "log", name |-> [stem |-> 0, ext |-> "txt"]]

\* os.path.join(log_dir, f"log_{pdbqt_file[:-6]}.txt")
LogPath(f) == [dir |-> "log", name |-> [stem |-> StripExt(f), ext |-> "txt"]]

\* -------------------------------------------------------- file contents ---
None == <<>>
Some(v) == <<v>>

Marker == <<"REMARK", "VINA", "RESULT:">>
RemarkLine(tok) == Marker \o <<tok, "0.000", "0.000">>
ModelLine(k) == <<"MODEL", k>>
AtomLine == <<"ATOM", "C">>
EndLine == <<"ENDMDL">>

\* the result files that can be met, by a short identifier
ContentOf(id) ==
    CASE id = "good93"   -> << ModelLine("1"), RemarkLine("-9.3"), AtomLine, EndLine,
                               ModelLine("2"), RemarkLine("-7.1"), AtomLine, EndLine >>
      [] id = "good71"   -> << ModelLine("1"), RemarkLine("-7.1"), AtomLine, EndLine >>
      [] id = "good50"   -> << ModelLine("1"), RemarkLine("-5.0"), AtomLine, EndLine >>
      [] id = "nomarker" -> << ModelLine("1"), AtomLine, EndLine >>
      [] id = "short"    -> << ModelLine("1"), Marker >>
      [] id = "nonnum"   -> << ModelLine("1"), Marker \o <<"n/a">>, AtomLine, EndLine >>
      [] id = "noend"    -> << ModelLine("1"), RemarkLine("-9.3"), AtomLine >>
      [] id = "endfirst" -> << EndLine, ModelLine("1"), RemarkLine("-7.1"), AtomLine >>
      [] id = "scoreonly" -> << RemarkLine("-7.1") >>
      [] OTHER           -> << >>

\* float(tok): the value in tenths, or no value (ValueError)
FloatOf(tok) ==
    CASE tok = "-9.3" -> Some(-93)
      [] tok = "-7.1" -> Some(-71)
      [] tok = "-5.0" -> Some(-50)
      [] OTHER        -> None

\* line.startswith("REMARK VINA RESULT:")
StartsWithMarker(line) == Len(line) >= 3 /\ SubSeq(line, 1, 3) = Marker

\* "REMARK VINA RESULT:" in line
ContainsMarker(line) ==
    \E i \in 1..Len(line) : i + 2 <= Len(line) /\ SubSeq(line, i, i + 2) = Marker

\* "MODEL" in line
ContainsModel(line) == \E i \in 1..Len(line) : line[i] = "MODEL"

\* float(line.split()[3]): [exc, val]
ScoreField(line) ==
    IF Len(line) < 4 THEN [exc |-> "IndexError", val |-> None]
    ELSE IF FloatOf(line[4]) = None THEN [exc |-> "ValueError", val |-> None]
    ELSE [exc |-> "none", val |-> FloatOf(line[4])]

\* lines.index(x): the first position of x, 0 when x is not in lines (ValueError)
IndexOf(lines, x) ==
    IF \E i \in 1..Len(lines) : lines[i] = x
    THEN CHOOSE i \in 1..Len(lines) :
             lines[i] = x /\ \A j \in 1..(i - 1) : lines[j] # x
    ELSE 0

\* the first iteration of "for line in lines" among the positions S, 0 when S is empty
FirstIn(S) == IF S = {} THEN 0 ELSE CHOOSE i \in S : \A j \in S : i <= j

\* positions of the lines the three scans look for
MarkerStarts(lines) == {i \in 1..Len(lines) : StartsWithMarker(lines[i])}
MarkerHolds(lines) == {i \in 1..Len(lines) : ContainsMarker(lines[i])}
ModelHolds(lines) == {i \in 1..Len(lines) : ContainsModel(lines[i])}

\* ------------------------------------------------------------- parsers ---
\* Docking1.py lines 72-77: the first line starting with the marker decides;
\* found = FALSE when no line starts with it (nothing is appended)
Dock1Parse(lines) ==
    LET i == FirstIn(MarkerStarts(lines))
    IN  IF i = 0 THEN [exc |-> "none", found |-> FALSE, val |-> None]
        ELSE [exc |-> ScoreField(lines[i]).exc, found |-> TRUE,
              val |-> ScoreField(lines[i]).val]

\* lines[lines.index(line) : lines.index("ENDMDL\n") + 1] for the first line
\* holding "MODEL"; start = 0 when there is no such line
PoseBlock(lines) ==
    LET m == FirstIn(ModelHolds(lines))
        a == IF m = 0 THEN 0 ELSE IndexOf(lines, lines[m])
        e == IndexOf(lines, EndLine)
    IN  IF m = 0 THEN [exc |-> "none", pose |-> <<>>]
        ELSE IF e = 0 THEN [exc |-> "ValueError", pose |-> <<>>]
        ELSE [exc |-> "none", pose |-> SubSeq(lines, a, e)]

\* MOL2_top_poses.py get_best_score_and_pose: [exc, score, pose]
get_best_score_and_pose(lines) ==
    LET i  == FirstIn(MarkerHolds(lines))
        sc == IF i = 0 THEN [exc |-> "none", val |-> None] ELSE ScoreField(lines[i])
        pb == PoseBlock(lines)
    IN  IF sc.exc # "none" THEN [exc |-> sc.exc, score |-> None, pose |-> <<>>]
        ELSE IF pb.exc # "none" THEN [exc |-> pb.exc, score |-> None, pose |-> <<>>]
        ELSE [exc |-> "none", score |-> sc.val, pose |-> pb.pose]

\* ------------------------------------------------------------- sorting ---
Min(a, b) == IF a <= b THEN a ELSE b

\* s[:k]
Take(s, k) == SubSeq(s, 1, Min(k, Len(s)))

\* variant: x is placed in front of the entries with an equal key
RECURSIVE InsertBeforeEqual(_, _)
InsertBeforeEqual(x, s) ==
    IF s = <<>> THEN <<x>>
    ELSE IF s[Len(s)].score[1] < x.score[1] THEN Append(s, x)
    ELSE Append(InsertBeforeEqual(x, SubSeq(s, 1, Len(s) - 1)), s[Len(s)])

\* x placed behind every entry of the sorted s whose key is <= x's key
RECURSIVE InsertAfterEqual(_, _)
InsertAfterEqual(x, s) ==
    IF s = <<>> THEN <<x>>
    ELSE IF s[Len(s)].score[1] <= x.score[1] THEN Append(s, x)
    ELSE Append(InsertAfterEqual(x, SubSeq(s, 1, Len(s) - 1)), s[Len(s)])

\* variant: the list is left in the order of collection
SortByScoreSkipped(s) == s

\* list.sort(key=lambda x: x[0]) on entries that all have a score: stable
RECURSIVE SortByScore(_)
SortByScore(s) ==
    IF s = <<>> THEN <<>>
    ELSE InsertAfterEqual(s[Len(s)], SortByScore(SubSeq(s, 1, Len(s) - 1)))

\* list.sort compares keys with <: with two or more entries every key is
\* compared at least once, and None < float raises TypeError
SortRaises(s) == Len(s) >= 2 /\ \E i \in 1..Len(s) : s[i].score = None

\* results.sort(key=lambda x: x[0]): [exc, list]
SortResults(s) ==
    IF SortRaises(s) THEN [exc |-> "TypeError", list |-> s]
    ELSE IF Len(s) <= 1 THEN [exc |-> "none", list |-> s]
    ELSE [exc |-> "none", list |-> SortByScore(s)]

\* all orders in which os.listdir can return the names of S
Perms(S) ==
    {p \in [1..Cardinality(S) -> S] : \A i, j \in 1..Cardinality(S) : p[i] = p[j] => i = j}


\* --------------------------------------------------------------- state ---
VARIABLES
    prog,          \* the script that runs: "dock1", "dock2" or "analyze"
    pc,            \* its position
    exc,           \* the uncaught exception that ended it, "none" otherwise
    cpu,           \* psutil.cpu_count()
    exeMissing,    \* ./psovina does not exist
    inputDir,      \* names in sd_library_dir / input_dir
    pdbqt_files,   \* the list built at line 43 / 39
    launched,      \* names for which Popen returned, in order
    proc,          \* per name: "none", "running", "zombie" (ended, not waited for), "reaped"
    exitCode,      \* per name: exit status of its ended process
    processes,     \* the set of Popen objects kept by the loop
    pbar,          \* tqdm's counter n
    resultsDir,    \* per name: content of the file in the results directory, or "absent"
    resultsDir1,   \* analyze only: the same for results_dir1
    scan,          \* names still to visit in the os.listdir loop
    results,       \* the list results
    top,           \* the ranked selection results[:K]
    k,             \* number of entries of top already materialised
    top500Dir,     \* names in the round-one selection directory
    finalDir,      \* analyze only: files in final_poses_dir
    scores,        \* analyze only: rows written to scores_file after the header
    conv,          \* analyze only, per name: what obabel did ("none" before it ran)
    out            \* messages printed or reported, in order

vars == << prog, pc, exc, cpu, exeMissing, inputDir, pdbqt_files, launched, proc,
           exitCode, processes, pbar, resultsDir, resultsDir1, scan, results, top,
           k, top500Dir, finalDir, scores, conv, out >>

schedVars == << launched, proc, exitCode, processes, pbar >>
envVars == << prog, cpu, exeMissing, inputDir, pdbqt_files >>
rankVars == << scan, results, top, k, top500Dir >>
analyzeVars == << resultsDir1, finalDir, scores, conv >>

\* names a results directory can hold: this run's molecules and one more
StaleName == PdbqtName(MaxMol + 1)
ResNames == MolNames \cup {StaleName}

EmptyDir == [f \in ResNames |-> "absent"]

\* what an earlier run may have left in the results and selection directories
Leftovers ==
    { [res |-> EmptyDir, sel |-> {}],
      [res |-> [EmptyDir EXCEPT ![StaleName] = "good50"], sel |-> {StaleName}],
      [res |-> [EmptyDir EXCEPT ![PdbqtName(1)] = "good50"], sel |-> {PdbqtName(1)}] }

\* how one psovina job can end: exit status and the result file it leaves
\* ("nowrite": none).  /bin/sh exits 127 when ./psovina is missing.
JobOutcomes ==
    IF exeMissing THEN { [code |-> 127, file |-> "nowrite"] }
    ELSE { [code |-> 0,   file |-> "good93"],
           [code |-> 0,   file |-> "good71"],
           [code |-> 0,   file |-> "nomarker"],
           [code |-> 1,   file |-> "nowrite"],
           [code |-> -9,  file |-> "short"] }

InitSched ==
    /\ prog \in {"dock1", "dock2"}
    /\ pc = "loop"
    /\ cpu \in 1..MaxCpu
    /\ exeMissing \in BOOLEAN
    /\ \E S \in SUBSET MolNames : inputDir = S \cup {NotesName}
    /\ pdbqt_files \in Perms({f \in inputDir : EndsWithPdbqt(f)})
    /\ \E l \in Leftovers :
          /\ prog = "dock2" => l.sel = {}
          /\ resultsDir = l.res
          /\ top500Dir = l.sel
    /\ scan = <<>>
    /\ resultsDir1 = EmptyDir
    /\ finalDir = {}
    /\ scores = <<>>

InitCommon ==
    /\ exc = "none"
    /\ launched = <<>>
    /\ proc = [f \in ResNames |-> "none"]
    /\ exitCode = [f \in ResNames |-> None]
    /\ processes = {}
    /\ pbar = 0
    /\ results = <<>>
    /\ top = <<>>
    /\ k = 0
    /\ conv = [f \in ResNames |-> "none"]
    /\ out = <<>>

\* ----------------------------------------------------------- scheduler ---
\* variant: the test of line 56 written with > instead of >=
AtCeilingOffByOne(n, c) == n > c

\* len(processes) >= psutil.cpu_count()
AtCeiling(n, c) == n >= c

\* p.poll(): None while p runs; its status once it has ended; after os.wait()
\* took the status away, waitpid fails with ECHILD and Popen reports 0
Poll(p) ==
    CASE proc[p] = "running" -> None
      [] proc[p] = "zombie"  -> exitCode[p]
      [] OTHER               -> Some(0)

\* variant: only processes that report status 0 leave the set
FinishedOnlyClean(procs) == {p \in procs : Poll(p) = Some(0)}

\* [p for p in processes if p.poll() is not None]
Finished(procs) == {p \in procs : Poll(p) # None}

\* launched and not yet ended
Active == {f \in ResNames : proc[f] = "running"}
Terminated == {f \in ResNames : proc[f] \in {"zombie", "reaped"}}
Range(s) == {s[i] : i \in 1..Len(s)}

\* an uncaught exception ends the script
Raise(e) ==
    /\ pc' = "aborted"
    /\ exc' = e
    /\ out' = Append(out, [kind |-> "traceback", what |-> e])

\* variant: the loop does not advance through the list
NextFileStuck(n) == pdbqt_files[1]

\* variant: the list is walked from its end
NextFileReversed(n) == pdbqt_files[Len(pdbqt_files) - n]

\* for pdbqt_file in pdbqt_files: the file of the iteration after n launches
NextFile(n) == pdbqt_files[n + 1]

\* lines 50-59 up to the test of line 56: the next file's job is started
\* (Popen raises OSError when the shell itself cannot be started)
Launch ==
    /\ pc = "loop"
    /\ Len(launched) < Len(pdbqt_files)
    /\ LET f == NextFile(Len(launched))
       IN  \/ /\ Raise("OSError")
              /\ UNCHANGED << schedVars >>
           \/ /\ launched' = Append(launched, f)
              /\ proc' = [proc EXCEPT ![f] = "running"]
              /\ processes' = processes \cup {f}
              /\ IF AtCeiling(Cardinality(processes'), cpu)
                 THEN pc' = "wait" /\ pbar' = pbar
                 ELSE pc' = "loop" /\ pbar' = pbar + 1
              /\ UNCHANGED << exc, out, exitCode >>
    /\ UNCHANGED << envVars, resultsDir, rankVars, analyzeVars >>

\* variant: the wait is for the first process started, not for any
ReapableFirstOnly(c) == proc[c] = "zombie" /\ launched # <<>> /\ c = launched[1]

\* os.wait() can return for c: any child that has ended and was not waited for
Reapable(c) == proc[c] = "zombie"

\* variant: Popen keeps returncode None for a child whose status is gone
PollReapedStaysNone(p) == None

\* p.poll() for the child whose status os.wait() has just taken: waitpid fails
\* with ECHILD and Popen reports 0
PollReaped(p) == Some(0)

\* lines 57-59: os.wait() returns for any one ended child, then every kept
\* process is polled and the ended ones leave the set
WaitAny ==
    /\ pc = "wait"
    /\ IF \A f \in ResNames : proc[f] \notin {"running", "zombie"}
       THEN /\ Raise("ChildProcessError")
            /\ UNCHANGED << schedVars >>
       ELSE \E c \in ResNames :
            /\ Reapable(c)
            /\ LET gone == Finished(processes \ {c})
                             \cup {p \in processes \cap {c} : PollReaped(p) # None}
               IN  /\ processes' = processes \ gone
                   /\ proc' = [f \in ResNames |->
                                 IF f = c \/ (f \in gone /\ proc[f] = "zombie")
                                 THEN "reaped" ELSE proc[f]]
            /\ pbar' = pbar + 1
            /\ pc' = "loop"
            /\ UNCHANGED << exc, out, launched, exitCode >>
    /\ UNCHANGED << envVars, resultsDir, rankVars, analyzeVars >>

\* line 61: the loop is over
LoopExit ==
    /\ pc = "loop"
    /\ Len(launched) = Len(pdbqt_files)
    /\ pc' = "join"
    /\ UNCHANGED << exc, out, envVars, schedVars, resultsDir, rankVars, analyzeVars >>

\* lines 64-66, one p: poll() answers or wait() returns once p has ended
JoinOne ==
    /\ pc = "join"
    /\ \E p \in processes :
         /\ proc[p] = "zombie"
         /\ proc' = [proc EXCEPT ![p] = "reaped"]
    /\ UNCHANGED << pc, exc, out, envVars, launched, exitCode, processes, pbar,
                    resultsDir, rankVars, analyzeVars >>

\* variant: the final loop does not wait for processes that still run
JoinSkipsWait(procs) == \A p \in procs : proc[p] \in {"running", "reaped"}

\* the loop of lines 64-66 has gone through every kept process
JoinFinished(procs) == \A p \in procs : proc[p] = "reaped"

\* Docking2.py line 64 / Docking1.py line 70: past the final join
JoinDone ==
    /\ pc = "join"
    /\ JoinFinished(processes)
    /\ IF prog = "dock2"
       THEN /\ pc' = "done"
            /\ out' = Append(out, [kind |-> "completed", what |-> "dock2"])
            /\ scan' = scan
       ELSE /\ pc' = "collect"
            /\ out' = out
            /\ scan' \in Perms({f \in ResNames : resultsDir[f] # "absent"})
    /\ UNCHANGED << exc, envVars, schedVars, resultsDir, results, top, k, top500Dir,
                    analyzeVars >>

\* a running psovina job ends, with any status, leaving a result file or none
JobExit ==
    /\ \E j \in ResNames, o \in JobOutcomes :
         /\ proc[j] = "running"
         /\ proc' = [proc EXCEPT ![j] = "zombie"]
         /\ exitCode' = [exitCode EXCEPT ![j] = Some(o.code)]
         /\ resultsDir' = IF o.file = "nowrite" THEN resultsDir
                          ELSE [resultsDir EXCEPT ![j] = o.file]
    /\ UNCHANGED << pc, exc, out, envVars, launched, processes, pbar, rankVars,
                    analyzeVars >>


\* ---------------------------------------------- round-one ranking, copy ---
\* Docking1.py lines 70-77, one file of the listing
CollectOne ==
    /\ prog = "dock1"
    /\ pc = "collect"
    /\ scan # <<>>
    /\ LET f == Head(scan)
           r == Dock1Parse(ContentOf(resultsDir[f]))
       IN  IF EndsWithPdbqt(f) /\ r.exc # "none"
           THEN /\ Raise(r.exc)
                /\ UNCHANGED << scan, results >>
           ELSE /\ scan' = Tail(scan)
                /\ results' = IF EndsWithPdbqt(f) /\ r.found
                              THEN Append(results, [score |-> r.val, file |-> f])
                              ELSE results
                /\ UNCHANGED << pc, exc, out >>
    /\ UNCHANGED << envVars, schedVars, resultsDir, top, k, top500Dir, analyzeVars >>

\* Docking1.py lines 78 and 81: sort, cut at K
SortAndCut ==
    /\ prog = "dock1"
    /\ pc = "collect"
    /\ scan = <<>>
    /\ LET sr == SortResults(results)
       IN  IF sr.exc # "none"
           THEN /\ Raise(sr.exc)
                /\ UNCHANGED << results, top >>
           ELSE /\ results' = sr.list
                /\ top' = Take(sr.list, TopK1)
                /\ pc' = "copy"
                /\ UNCHANGED << exc, out >>
    /\ UNCHANGED << envVars, schedVars, resultsDir, scan, k, top500Dir, analyzeVars >>

\* Docking1.py line 82, one entry: shutil.copy raises when the source is gone
CopyOne ==
    /\ prog = "dock1"
    /\ pc = "copy"
    /\ k < Len(top)
    /\ LET f == top[k + 1].file
       IN  IF f \in inputDir
           THEN /\ top500Dir' = top500Dir \cup {f}
                /\ k' = k + 1
                /\ UNCHANGED << pc, exc, out >>
           ELSE /\ Raise("FileNotFoundError")
                /\ UNCHANGED << top500Dir, k >>
    /\ UNCHANGED << envVars, schedVars, resultsDir, scan, results, top, analyzeVars >>

\* Docking1.py line 84
CopyDone ==
    /\ prog = "dock1"
    /\ pc = "copy"
    /\ k = Len(top)
    /\ pc' = "done"
    /\ out' = Append(out, [kind |-> "completed", what |-> "dock1"])
    /\ UNCHANGED << exc, envVars, schedVars, resultsDir, rankVars, analyzeVars >>


\* ------------------------------------------------------- final analysis ---
\* result files analyze_results can find in results_dir2 / results_dir1
Dir2Contents == {"absent", "good93", "good71", "nomarker", "short", "nonnum",
                 "noend", "endfirst"}
Dir1Contents == {"absent", "good50", "nomarker"}

\* final_pose_path.replace(".pdbqt", ".mol2")
Mol2Name(f) == [stem |-> f.stem, ext |-> "mol2"]

InitAnalyze ==
    /\ prog = "analyze"
    /\ pc = "a_collect"
    /\ cpu = 1
    /\ exeMissing = FALSE
    /\ inputDir = {}
    /\ pdbqt_files = <<>>
    /\ \E d \in [MolNames -> Dir2Contents] :
          resultsDir = [f \in ResNames |-> IF f \in MolNames THEN d[f] ELSE "absent"]
    /\ \E d \in [MolNames -> Dir1Contents] :
          resultsDir1 = [f \in ResNames |-> IF f \in MolNames THEN d[f] ELSE "absent"]
    /\ scan \in Perms({f \in ResNames : resultsDir[f] # "absent"})
    /\ top500Dir = {}
    /\ finalDir = {}
    /\ scores = <<>>

\* MOL2_top_poses.py lines 47-52, one file of the listing
AnalyzeOne ==
    /\ prog = "analyze"
    /\ pc = "a_collect"
    /\ scan # <<>>
    /\ LET f == Head(scan)
           r == get_best_score_and_pose(ContentOf(resultsDir[f]))
       IN  IF ~EndsWithPdbqt(f)
           THEN /\ scan' = Tail(scan)
                /\ UNCHANGED << pc, exc, out, results >>
           ELSE IF r.exc # "none"
           THEN /\ Raise(r.exc)
                /\ UNCHANGED << scan, results >>
           ELSE /\ scan' = Tail(scan)
                /\ out' = IF r.score = None
                          THEN Append(out, [kind |-> "failed_score", what |-> f])
                          ELSE out
                /\ results' = Append(results,
                                     [score |-> r.score, file |-> f, pose |-> r.pose])
                /\ UNCHANGED << pc, exc >>
    /\ UNCHANGED << envVars, schedVars, resultsDir, top, k, top500Dir, analyzeVars >>

\* MOL2_top_poses.py lines 54-58: sort, cut at K, open the score report
AnalyzeSort ==
    /\ prog = "analyze"
    /\ pc = "a_collect"
    /\ scan = <<>>
    /\ LET sr == SortResults(results)
       IN  IF sr.exc # "none"
           THEN /\ Raise(sr.exc)
                /\ UNCHANGED << results, top >>
           ELSE /\ results' = sr.list
                /\ top' = Take(sr.list, TopK2)
                /\ pc' = "a_extract"
                /\ UNCHANGED << exc, out >>
    /\ UNCHANGED << envVars, schedVars, resultsDir, scan, k, top500Dir, analyzeVars >>

\* what subprocess.run(obabel ...) can do: print the bond-order warning or
\* not, leave a .mol2 file or not
Conversions == {"warned", "warned_nofile", "clean", "clean_nofile"}
Warned(c) == c \in {"warned", "warned_nofile"}
Made(c) == c \in {"warned", "clean"}

\* lines 64-70: the pose file is written, obabel writes its output
AfterConversion(dir, f, c) ==
    IF Made(c) THEN dir \cup {f, Mol2Name(f)} ELSE dir \cup {f}

\* variant: the converted file of a warned molecule is left behind
RemoveBothKeepsMol2(dir, f) == dir \ {f}

\* lines 74-75: os.remove(final_pose_path); os.remove(mol2_file)
RemoveBoth(dir, f) == dir \ {f, Mol2Name(f)}

\* line 77: os.remove(final_pose_path)
RemovePose(dir, f) == dir \ {f}

\* line 79: the row of molecule f
ScoreRow(f, first, second) ==
    [id |-> StripExt(f), first |-> first, second |-> second]

\* MOL2_top_poses.py lines 59-79, one selected molecule
ExtractOne ==
    /\ prog = "analyze"
    /\ pc = "a_extract"
    /\ k < Len(top)
    /\ \E c \in Conversions :
         LET e     == top[k + 1]
             f     == e.file
             wrote == AfterConversion(finalDir, f, c)
             first == get_best_score_and_pose(ContentOf(resultsDir1[f]))
         IN  /\ conv' = [conv EXCEPT ![f] = c]
             /\ IF Warned(c)
                THEN IF Made(c)
                     THEN /\ finalDir' = RemoveBoth(wrote, f)
                          /\ k' = k + 1
                          /\ UNCHANGED << pc, exc, out, scores >>
                     ELSE /\ finalDir' = RemovePose(wrote, f)
                          /\ Raise("FileNotFoundError")
                          /\ UNCHANGED << k, scores >>
                ELSE /\ finalDir' = RemovePose(wrote, f)
                     /\ IF resultsDir1[f] = "absent"
                        THEN /\ Raise("FileNotFoundError")
                             /\ UNCHANGED << k, scores >>
                        ELSE IF first.exc # "none"
                        THEN /\ Raise(first.exc)
                             /\ UNCHANGED << k, scores >>
                        ELSE /\ scores' = Append(scores,
                                                 ScoreRow(f, first.score, e.score))
                             /\ k' = k + 1
                             /\ UNCHANGED << pc, exc, out >>
    /\ UNCHANGED << envVars, schedVars, resultsDir, resultsDir1, scan, results, top,
                    top500Dir >>

\* MOL2_top_poses.py line 81
AnalyzeDone ==
    /\ prog = "analyze"
    /\ pc = "a_extract"
    /\ k = Len(top)
    /\ pc' = "done"
    /\ out' = Append(out, [kind |-> "completed", what |-> "analyze"])
    /\ UNCHANGED << exc, envVars, schedVars, resultsDir, rankVars, analyzeVars >>

\* ------------------------------------------------------- specification ---
Init == (InitSched \/ InitAnalyze) /\ InitCommon

Next ==
    \/ Launch
    \/ WaitAny
    \/ LoopExit
    \/ JoinOne
    \/ JoinDone
    \/ JobExit
    \/ CollectOne
    \/ SortAndCut
    \/ CopyOne
    \/ CopyDone
    \/ AnalyzeOne
    \/ AnalyzeSort
    \/ ExtractOne
    \/ AnalyzeDone

Spec == Init /\ [][Next]_vars

\* the scheduler of lines 49-66 alone, for progress: the script goes on with
\* its next statement whenever it can (a call that blocks is not enabled), and
\* every started job ends at some time
InitSchedOnly == InitSched /\ InitCommon

NextSched ==
    \/ Launch
    \/ WaitAny
    \/ LoopExit
    \/ JoinOne
    \/ JoinDone
    \/ JobExit

Fairness ==
    /\ WF_vars(Launch)
    /\ WF_vars(WaitAny)
    /\ WF_vars(LoopExit)
    /\ WF_vars(JoinOne)
    /\ WF_vars(JoinDone)
    /\ WF_vars(JobExit)

FairSpec == InitSchedOnly /\ [][NextSched]_vars /\ Fairness


\* -------------------------------------------------------------- claims ---
Docking == prog \in {"dock1", "dock2"}

\* the scheduler has gone past its final join (lines 64-66)
PastJoin ==
    /\ Docking
    /\ \/ pc \in {"collect", "copy", "done"}
       \/ pc = "aborted" /\ exc \notin {"OSError", "ChildProcessError"}

\* C1: at no instant are more than cpu launched-and-not-yet-terminated jobs
\* active, whatever the order in which jobs end.
C1_CeilingRespected == Cardinality(Active) <= cpu

C1_Witness_PoolFull ==
    /\ Docking
    /\ pc = "wait"
    /\ cpu > 1
    /\ Cardinality(Active) = cpu

\* C2: every input file is launched exactly once, in a batch of N files
\* exactly N jobs are launched, and the scheduler is past its final join only
\* in states where all N jobs have terminated.
C2_AllLaunchedAllTerminated ==
    /\ \A i, j \in 1..Len(launched) : launched[i] = launched[j] => i = j
    /\ \A i \in 1..Len(launched) : launched[i] = pdbqt_files[i]
    /\ PastJoin => /\ launched = pdbqt_files
                   /\ Range(pdbqt_files) \subseteq Terminated

C2_Witness_BatchJoined ==
    /\ prog = "dock2"
    /\ pc = "done"
    /\ Len(launched) >= 2
    /\ cpu = 1

\* C3: a job that exits non-zero, crashes or leaves no output is not fatal:
\* the wait of lines 57-58 removes every ended job from the kept set whatever
\* its status and leaves a free slot, and the script is only ever ended with
\* files not launched or jobs not joined by a failure to start a process.
C3_FailedJobNotFatal ==
    /\ [] (Docking /\ pc = "aborted" /\ exc # "OSError"
             => /\ launched = pdbqt_files
                /\ Range(pdbqt_files) \subseteq Terminated
                /\ \A p \in processes : proc[p] = "reaped")
    /\ [][ pc = "wait" /\ pc' = "loop"
             => /\ \A p \in processes : proc[p] = "zombie" => p \notin processes'
                /\ Cardinality(processes') < cpu ]_vars

C3_Witness_FailedJobBatchDone ==
    /\ prog = "dock2"
    /\ pc = "done"
    /\ Len(launched) >= 2
    /\ cpu > 1
    /\ exitCode[launched[1]] \notin {None, Some(0)}
    /\ exitCode[launched[2]] = Some(0)

\* C4 (as claimed): when the docking executable is missing, or a process
\* cannot be started, the batch is aborted: no further job is launched and no
\* ranking or selection copy is performed.
C4_LaunchFailureAborts ==
    /\ exeMissing /\ launched # <<>>
         => Len(launched) <= 1 /\ pc \notin {"collect", "copy", "done"}
    /\ exc = "OSError" => pc = "aborted" /\ results = <<>> /\ k = 0

\* C5: in round one no result file is parsed and no ranking is computed while
\* a launched job has not terminated or a file has not been launched.
C5_NoPartialRanking ==
    [][ prog = "dock1" /\ (scan' # scan \/ results' # results \/ top' # top)
          => Active = {} /\ launched = pdbqt_files ]_vars

C5_Witness_RankedAfterJobs ==
    /\ prog = "dock1"
    /\ pc = "copy"
    /\ Len(launched) >= 2
    /\ Len(results) >= 2

\* C6 (as claimed): the progress count is at most the number of jobs that
\* have terminated, and reaches N only when all N jobs have completed.
C6_ProgressIsCompletedCount ==
    Docking => /\ pbar <= Cardinality(Terminated)
               /\ pbar = Len(pdbqt_files) => Range(pdbqt_files) \subseteq Terminated

\* the score line of a file, when it has one, cannot be converted
MalformedMarker(lines) ==
    LET i == FirstIn(MarkerHolds(lines))
    IN  i # 0 /\ ScoreField(lines[i]).exc # "none"

NoMarker(lines) == FirstIn(MarkerHolds(lines)) = 0

\* a line holding the start marker with no end-marker line after it
StartWithoutEnd(lines) ==
    LET m == FirstIn(ModelHolds(lines))
    IN  m # 0 /\ \A j \in (m + 1)..Len(lines) : lines[j] # EndLine

Reported(kind, f) == \E i \in 1..Len(out) : out[i] = [kind |-> kind, what |-> f]

\* C7 (as claimed): a result file without a marker line gives an absent
\* score that is kept out of the ranked selection and reported as skipped, and
\* the rest of the ranking completes; in round one and in the final analysis.
C7_AbsentScoreSkipped ==
    /\ \A i \in 1..Len(top) : top[i].score # None
    /\ exc # "TypeError"
    /\ prog = "dock1" /\ pc = "done"
         => \A f \in ResNames :
               resultsDir[f] # "absent" /\ NoMarker(ContentOf(resultsDir[f]))
                  => Reported("failed_score", f)

\* C8 (as claimed): a malformed marker line is a per-file failure that does
\* not end the ranking.
C8_MalformedTolerated ==
    ~ /\ pc = "aborted"
      /\ exc \in {"ValueError", "IndexError"}
      /\ scan # <<>>
      /\ MalformedMarker(ContentOf(resultsDir[Head(scan)]))

\* C9 (as claimed): for a file with a start marker and no end marker after
\* it, get_best_score_and_pose does not raise, returns an empty pose and the
\* score of the marker line.
C9_MissingEndTolerated ==
    prog = "analyze" =>
      /\ ~ /\ pc = "aborted"
           /\ scan # <<>>
           /\ StartWithoutEnd(ContentOf(resultsDir[Head(scan)]))
           /\ ~MalformedMarker(ContentOf(resultsDir[Head(scan)]))
      /\ \A n \in 1..Len(results) :
           LET lines == ContentOf(resultsDir[results[n].file])
               i     == FirstIn(MarkerHolds(lines))
           IN  StartWithoutEnd(lines)
                 => /\ results[n].pose = <<>>
                    /\ results[n].score =
                         IF i = 0 THEN None ELSE ScoreField(lines[i]).val

\* number of entries of s with a present score
RECURSIVE Scored(_)
Scored(s) ==
    IF s = <<>> THEN 0
    ELSE Scored(Tail(s)) + (IF Head(s).score # None THEN 1 ELSE 0)

\* C10 (as claimed): the ranked selection has min(K, number of result
\* records with a present score) entries, at both call sites.
C10_TruncationLength ==
    /\ prog = "dock1" /\ pc \in {"copy", "done"}
         => Len(top) = Min(TopK1, Scored(results))
    /\ prog = "analyze" /\ pc \in {"a_extract", "done"}
         => Len(top) = Min(TopK2, Scored(results))


\* the ranked selection has been cut (line 81 / line 55)
Ranked ==
    \/ prog = "dock1" /\ pc \in {"copy", "done"}
    \/ prog = "analyze" /\ pc \in {"a_extract", "done"}
    \/ pc = "aborted" /\ exc = "FileNotFoundError"

\* C11: the ranked selection is in ascending order of score and holds the K
\* best results: no scored result left out has a score below that of a
\* selected entry.
C11_AscendingBestK ==
    Ranked =>
      /\ \A i, j \in 1..Len(top) :
           i < j /\ top[i].score # None /\ top[j].score # None
             => top[i].score[1] <= top[j].score[1]
      /\ Len(top) >= 2 => \A i \in 1..Len(top) : top[i].score # None
      /\ \A i \in 1..Len(top) : top[i] = results[i]
      /\ \A i \in 1..Len(top), n \in (Len(top) + 1)..Len(results) :
           results[n].score # None
             => top[i].score # None /\ top[i].score[1] <= results[n].score[1]

C11_Witness_TwoBestOfThree ==
    /\ prog = "dock1"
    /\ pc = "done"
    /\ Len(top) >= 2
    /\ Len(results) > Len(top)
    /\ top[1].score[1] < top[2].score[1]
    /\ top[Len(top)].score[1] < results[Len(results)].score[1]


\* position of file f in the sequence of launches / of entry x in the list s
LaunchIndex(f) == CHOOSE i \in 1..Len(launched) : launched[i] = f
PosIn(s, x) == CHOOSE n \in 1..Len(s) : s[n] = x

\* C12 (as claimed): of two results with equal scores, the one whose job was
\* launched earlier is ranked first.
C12_TiesByLaunchOrder ==
    prog = "dock1" /\ pc \in {"copy", "done"} =>
      \A i, j \in 1..Len(results) :
        /\ i < j
        /\ results[i].score = results[j].score
        /\ results[i].file \in Range(launched)
        /\ results[j].file \in Range(launched)
        => LaunchIndex(results[i].file) < LaunchIndex(results[j].file)

\* C12 (amended): the sort of line 78 keeps results with equal scores in the
\* order in which they were collected from os.listdir(results_dir), and the
\* selection is the first K entries of that order.
C12_TiesByListingOrder ==
    [][ prog = "dock1" /\ pc = "collect" /\ pc' = "copy"
          => /\ \A i, j \in 1..Len(results') :
                  i < j /\ results'[i].score = results'[j].score
                    => PosIn(results, results'[i]) < PosIn(results, results'[j])
             /\ top' = Take(results', TopK1) ]_vars

C12_Witness_TieAgainstLaunchOrder ==
    /\ prog = "dock1"
    /\ pc = "copy"
    /\ \E i, j \in 1..Len(results) :
         /\ i < j
         /\ results[i].score = results[j].score
         /\ results[i].file \in Range(launched)
         /\ results[j].file \in Range(launched)
         /\ LaunchIndex(results[i].file) > LaunchIndex(results[j].file)


\* number of entries of the sequence s that satisfy being in the set S
RECURSIVE CountIn(_, _)
CountIn(s, S) ==
    IF s = <<>> THEN 0 ELSE CountIn(Tail(s), S) + (IF Head(s) \in S THEN 1 ELSE 0)

\* C13 (as claimed): a selected entry whose source file is missing at copy
\* time is skipped and reported once; the other entries are copied and the
\* copy completes.
C13_MissingSourceSkipped ==
    prog = "dock1" =>
      /\ ~ (pc = "aborted" /\ exc = "FileNotFoundError")
      /\ pc = "done" =>
           /\ \A i \in 1..Len(top) :
                top[i].file \in inputDir => top[i].file \in top500Dir
           /\ \A i \in 1..Len(top) :
                top[i].file \notin inputDir =>
                  CountIn(out, {[kind |-> "missing_source", what |-> top[i].file]}) = 1

\* C14: once a selected molecule whose conversion printed the bond-order
\* warning has been processed, neither its pose file nor its converted file is
\* in the destination directory, and the score report has no row for it.
C14_WarnedLeavesNothing ==
    \A f \in ResNames :
      Warned(conv[f]) =>
        /\ f \notin finalDir
        /\ Mol2Name(f) \notin finalDir
        /\ \A i \in 1..Len(scores) : scores[i].id # StripExt(f)

C14_Witness_WarnedDiscarded ==
    /\ prog = "analyze"
    /\ pc = "done"
    /\ \E f \in ResNames : conv[f] = "warned" /\ Len(top) >= 1 /\ top[1].file = f

\* rows of the score report that belong to molecule f
RowsOf(f) == {i \in 1..Len(scores) : scores[i].id = StripExt(f)}

\* C15 (as claimed): for every selected molecule whose conversion printed no
\* warning, the converted file is kept, the pose file is removed and exactly
\* one row with its id and its two scores is appended, whatever the state of
\* its round-one result file.
C15_CleanKeepsAndReports ==
    \A n \in 1..Len(top) :
      LET f == top[n].file
      IN  conv[f] \in {"clean", "clean_nofile"} =>
            /\ f \notin finalDir
            /\ conv[f] = "clean" => Mol2Name(f) \in finalDir
            /\ Cardinality(RowsOf(f)) = 1
            /\ \A i \in RowsOf(f) :
                 /\ scores[i].second = top[n].score
                 /\ scores[i].first # None
                 /\ scores[i].first =
                      get_best_score_and_pose(ContentOf(resultsDir1[f])).score


\* C16: within one batch no two jobs get the same result-file path or the
\* same log-file path, so two running jobs never write to the same file.
C16_DistinctPaths ==
    \A i, j \in 1..Len(launched) :
      i # j => /\ ResultsPath(launched[i]) # ResultsPath(launched[j])
               /\ LogPath(launched[i]) # LogPath(launched[j])

C16_Witness_TwoJobsRunning ==
    /\ Docking
    /\ Cardinality(Active) >= 2

\* C17: launch order follows input order: a file is launched only after
\* every file in front of it in pdbqt_files, whatever the order in which the
\* running jobs end.
C17_LaunchFollowsInput ==
    /\ \A j \in 1..Len(pdbqt_files) :
         proc[pdbqt_files[j]] # "none"
           => \A i \in 1..(j - 1) : proc[pdbqt_files[i]] # "none"
    /\ \A i, j \in 1..Len(launched) :
         i < j => PosIn(pdbqt_files, launched[i]) < PosIn(pdbqt_files, launched[j])

C17_Witness_LaterJobEndsFirst ==
    /\ Docking
    /\ Len(launched) >= 2
    /\ proc[launched[1]] = "running"
    /\ proc[launched[2]] = "zombie"

\* C19: when os.wait() is called a kept child has not been waited for, so it
\* never fails for lack of children; a child whose status was taken leaves the
\* kept set with that wait, and before every launch the kept set has fewer
\* than cpu members.
C19_WaitHasChildren ==
    Docking =>
      /\ pc = "wait" => \E p \in processes : proc[p] \in {"running", "zombie"}
      /\ exc # "ChildProcessError"
      /\ pc \in {"loop", "wait"} => \A p \in processes : proc[p] \in {"running", "zombie"}
      /\ pc = "loop" => Cardinality(processes) < cpu

C19_Witness_SlotFreedBeforeLaunch ==
    /\ Docking
    /\ pc = "loop"
    /\ Len(launched) >= cpu
    /\ Len(launched) < Len(pdbqt_files)
    /\ \E f \in ResNames : proc[f] = "reaped"

\* C20 (as claimed): whatever the results and selection directories held
\* before, every ranked result belongs to a job launched in this run, and
\* after docking_process the selection directory holds exactly the input
\* files of the ranked selection.
C20_SelectionOfThisBatchOnly ==
    prog = "dock1" =>
      /\ \A i \in 1..Len(results) : results[i].file \in Range(launched)
      /\ pc = "done" => top500Dir = {top[i].file : i \in 1..Len(top)}


\* C18: the scheduler blocks only with the kept set at the ceiling, the wait
\* can return as soon as any one child has ended, and, every started job
\* ending at some time, every file is eventually launched and the final join
\* is eventually passed (unless starting a process fails, which ends the
\* script).
C18_SchedulerCompletes ==
    /\ [] (pc = "wait" => Cardinality(processes) >= cpu)
    /\ [] (pc = "wait" /\ (\E c \in ResNames : proc[c] = "zombie") => ENABLED WaitAny)
    /\ <> (launched = pdbqt_files \/ exc = "OSError")
    /\ <> (pc \in {"collect", "done"} \/ exc = "OSError")

C18_Witness_BlockedThenCompleted ==
    /\ prog = "dock1"
    /\ pc = "collect"
    /\ Len(launched) > cpu
    /\ \A f \in Range(launched) : proc[f] = "reaped"

=============================================================================
